---- MODULE Spec2Model ----
(***************************************************************************)
(* Seeded graph matching (jagterberg/sgm): the two scripts src/sgm0.py and *)
(* src/sgm.py as one state machine.  A run loads A, B and P, remaps and    *)
(* pads A and B, runs the Frank-Wolfe loop (one assignment problem and one *)
(* exact line search per iteration), projects the relaxed P onto a         *)
(* permutation and reports.                                                *)
(*                                                                         *)
(* Arithmetic is exact: a scalar is a rational [n, d] in lowest terms, a   *)
(* relaxed matrix is an integer matrix over one positive denominator.      *)
(* Floating-point rounding is not modelled.  Python's float('inf') and the *)
(* NaN it produces are modelled as the extended values PInf, NInf, NaN.    *)
(* The assignment solver lapjv is modelled by its contract: it returns one *)
(* of the minimum-cost assignments, any of them on ties.                   *)
(***************************************************************************)
EXTENDS Integers, Sequences, FiniteSets, TLC

\* ------------------------------------------------------------------ bounds
\* Largest dimension of the generic input matrices.
MaxN == 2
\* Largest --patience of the generic runs.
MaxPatience == 2
\* argparse defaults of --patience and --tolerance.
DefaultPatience == 20
DefaultTolerance == 1
\* The seed count src/sgm.py hardcodes.
HardcodedSeeds == 145

\* --------------------------------------------------------------- integers
Abs(x) == IF x < 0 THEN -x ELSE x
Min2(x, y) == IF x < y THEN x ELSE y
Max2(x, y) == IF x < y THEN y ELSE x

RECURSIVE Gcd(_, _)
Gcd(x, y) == IF y = 0 THEN Abs(x) ELSE Gcd(y, x % Abs(y))

RECURSIVE SumTo(_, _)
\* f[1] + ... + f[k]
SumTo(f, k) == IF k = 0 THEN 0 ELSE f[k] + SumTo(f, k - 1)

RECURSIVE GcdTo(_, _)
\* gcd(f[1], ..., f[k])
GcdTo(f, k) == IF k = 0 THEN 0 ELSE Gcd(f[k], GcdTo(f, k - 1))

\* -------------------------------------------------------------- rationals
\* n/d in lowest terms with d > 0.
Rat(n, d) ==
    LET g == Gcd(n, d)
        s == IF d < 0 THEN -1 ELSE 1
    IN  [n |-> (s * n) \div g, d |-> (s * d) \div g]
RInt(k) == [n |-> k, d |-> 1]
RAdd(x, y) == Rat(x.n * y.d + y.n * x.d, x.d * y.d)
RNeg(x) == [n |-> -x.n, d |-> x.d]
RSub(x, y) == RAdd(x, RNeg(y))
RMul(x, y) == Rat(x.n * y.n, x.d * y.d)
\* y # 0
RDiv(x, y) == Rat(x.n * y.d, x.d * y.n)
RLt(x, y) == x.n * y.d < y.n * x.d
RSign(x) == IF x.n > 0 THEN 1 ELSE IF x.n < 0 THEN -1 ELSE 0

\* ------------------------------------------- floats with inf and NaN
Fin(r) == [k |-> "fin", v |-> r]
PInf == [k |-> "pinf"]
NInf == [k |-> "ninf"]
NaN == [k |-> "nan"]
IsFin(x) == x.k = "fin"
\* Sign of an extended value that is not NaN.
ESign(x) == IF x.k = "pinf" THEN 1 ELSE IF x.k = "ninf" THEN -1 ELSE RSign(x.v)
\* IEEE product: 0 * inf = NaN.
EMul(x, y) ==
    IF x.k = "nan" \/ y.k = "nan" THEN NaN
    ELSE IF IsFin(x) /\ IsFin(y) THEN Fin(RMul(x.v, y.v))
    ELSE IF ESign(x) * ESign(y) = 0 THEN NaN
    ELSE IF ESign(x) * ESign(y) > 0 THEN PInf ELSE NInf
\* IEEE sum: inf + (-inf) = NaN.
EAdd(x, y) ==
    IF x.k = "nan" \/ y.k = "nan" THEN NaN
    ELSE IF IsFin(x) /\ IsFin(y) THEN Fin(RAdd(x.v, y.v))
    ELSE IF IsFin(x) THEN y
    ELSE IF IsFin(y) THEN x
    ELSE IF x.k = y.k THEN x ELSE NaN
\* IEEE x < y: false as soon as one side is NaN.
ELt(x, y) ==
    IF x.k = "nan" \/ y.k = "nan" THEN FALSE
    ELSE IF IsFin(x) /\ IsFin(y) THEN RLt(x.v, y.v)
    ELSE IF x.k = "ninf" THEN y.k # "ninf"
    ELSE IF x.k = "pinf" THEN FALSE
    ELSE y.k = "pinf"
EGt(x, y) == ELt(y, x)

\* --------------------------------------------------------------- matrices
\* A matrix is a sequence of rows; M[i][j], 1-based.
Rows(M) == Len(M)
Cols(M) == IF Len(M) = 0 THEN 0 ELSE Len(M[1])
IsSquare(M) == Rows(M) = Cols(M)
Transpose(M) == [i \in 1..Cols(M) |-> [j \in 1..Rows(M) |-> M[j][i]]]
Zeros(r, q) == [i \in 1..r |-> [j \in 1..q |-> 0]]
Eye(k) == [i \in 1..k |-> [j \in 1..k |-> IF i = j THEN 1 ELSE 0]]
\* torch.mm
MM(X, Y) ==
    [i \in 1..Rows(X) |-> [j \in 1..Cols(Y) |->
        SumTo([l \in 1..Cols(X) |-> X[i][l] * Y[l][j]], Cols(X))]]
MAdd(X, Y) == [i \in DOMAIN X |-> [j \in DOMAIN X[i] |-> X[i][j] + Y[i][j]]]
MScale(s, X) == [i \in DOMAIN X |-> [j \in DOMAIN X[i] |-> s * X[i][j]]]
\* torch.sum(X * Y)
Dot(X, Y) ==
    SumTo([i \in 1..Rows(X) |->
              SumTo([j \in 1..Cols(X) |-> X[i][j] * Y[i][j]], Cols(X))], Rows(X))
Trace(X) == SumTo([i \in 1..Rows(X) |-> X[i][i]], Rows(X))
Entries(M) == {M[i][j] : i \in 1..Rows(M), j \in 1..Cols(M)}
MaxOf(S) == CHOOSE x \in S : \A y \in S : y <= x
MinOf(S) == CHOOSE x \in S : \A y \in S : x <= y
\* x[:r, :q]
Slice(M, r, q) ==
    [i \in 1..Min2(r, Rows(M)) |-> [j \in 1..Min2(q, Cols(M)) |-> M[i][j]]]
\* M.diag()
Diag(M) == [i \in 1..Min2(Rows(M), Cols(M)) |-> M[i][i]]

Perms(k) == {p \in [1..k -> 1..k] : \A i, j \in 1..k : p[i] = p[j] => i = j}
\* eye[ind]: row k of the result is row ind[k] of eye.
EyeRows(ind) ==
    [k \in 1..Len(ind) |-> [j \in 1..Len(ind) |-> IF j = ind[k] THEN 1 ELSE 0]]

\* The 4-node path graph 1 - 2 - 3 - 4 of the concrete scenarios.
Path4 == << <<0, 1, 0, 0>>, <<1, 0, 1, 0>>, <<0, 1, 0, 1>>, <<0, 0, 1, 0>> >>
AllPerms == [k \in 1..Max2(MaxN, Rows(Path4)) |-> Perms(k)]

\* ------------------------------------------------------------ the oracle
\* Total cost of assignment p (row i to column p[i]) under cost matrix C.
AssignCost(C, p) == SumTo([i \in 1..Len(p) |-> C[i][p[i]]], Len(p))
\* lapjv(C): a minimum-cost assignment; on ties any of them.
Lapjv(cost) ==
    UNION {UNION {{p \in AllPerms[Rows(C)] : AssignCost(C, p) = best} :
                     best \in {MinOf({AssignCost(C, p) : p \in AllPerms[Rows(C)]})}} :
              C \in {cost}}

\* ----------------------------------------------------- relaxed matrices
\* A relaxed matrix [m, d] stands for m / d, d > 0; d = 0 marks a matrix
\* holding NaN or infinite entries.
IsFiniteMat(X) == X.d > 0
NonFiniteMat(k) == [m |-> Zeros(k, k), d |-> 0]
\* Lowest terms.
NormP(X) ==
    LET k == Rows(X.m)
        g == Gcd(X.d, GcdTo([i \in 1..k |-> GcdTo(X.m[i], Cols(X.m))], k))
        s == IF X.d < 0 THEN -1 ELSE 1
    IN  IF X.d = 0 THEN NonFiniteMat(k)
        ELSE [m |-> [i \in 1..k |-> [j \in 1..Cols(X.m) |-> (s * X.m[i][j]) \div g]],
              d |-> (s * X.d) \div g]
\* An integer matrix as a relaxed matrix.
OfInt(M) == [m |-> M, d |-> 1]

\* --------------------------------------------------------------- validation
\* parse_args: assert args.m == 0
ArgsOK(mm) == mm = 0
\* load_matrix: assert mat.size(0) == mat.size(1)
LoadOK(M) == IsSquare(M)
\* GuardN1 switched off.
GuardN1_Off(var, k) == FALSE
\* if n == 1: raise NotImplemented -- in sgm.py only.
GuardN1(var, k) == var = "sgm" /\ k = 1

\* ------------------------------------------------------------------ prep
\* (P.diag() == 1).sum()
CountSeeds(X) ==
    LET dg == Diag(X.m) IN Cardinality({i \in DOMAIN dg : dg[i] = X.d})
\* Remap left out: the matrix as loaded.
Remap_Skipped(M) == M
\* A[A == 0] = -1
Remap(M) ==
    [i \in DOMAIN M |-> [j \in DOMAIN M[i] |-> IF M[i][j] = 0 THEN -1 ELSE M[i][j]]]
\* Zero rows and columns appended up to k x k.
square_pad(x, k) ==
    [i \in 1..k |-> [j \in 1..k |->
        IF i <= Rows(x) /\ j <= Cols(x) THEN x[i][j] ELSE 0]]

\* ------------------------------------------------------------- iteration
\* GradCost without the flip: the oracle then minimises the gradient.
GradCost_Unflipped(G) ==
    LET mx == MaxOf({Abs(g) : g \in Entries(G)})
    IN  [i \in DOMAIN G |-> [j \in DOMAIN G[i] |-> G[i][j] + mx]]
\* cost.max() - cost with cost = grad + grad.abs().max(), on the numerators of
\* grad (one positive denominator).
GradCost(G) ==
    LET mx == MaxOf({Abs(g) : g \in Entries(G)})
        cost == [i \in DOMAIN G |-> [j \in DOMAIN G[i] |-> G[i][j] + mx]]
        cm == MaxOf(Entries(cost))
    IN  [i \in DOMAIN G |-> [j \in DOMAIN G[i] |-> cm - cost[i][j]]]

\* Numerators of w = A.t() P B and z = A P B.t() over the denominator of P.
Wnum(a, b, X) == MM(MM(Transpose(a), X.m), b)
Znum(a, b, X) == MM(MM(a, X.m), Transpose(b))
\* The seeded cross terms x = A21 B21.t() and y = A12.t() B12 of src/sgm.py, all
\* zero for m = 0; src/sgm0.py has none.
Xterm(k) == MM(Zeros(k, k), Transpose(Zeros(k, k)))
Yterm(k) == MM(Transpose(Zeros(k, k)), Zeros(k, k))
\* Numerators of grad = z + w (sgm0.py), x + y + z + w (sgm.py).
GradNum(var, z, w, X) ==
    IF var = "sgm"
    THEN MAdd(MAdd(MAdd(MScale(X.d, Xterm(Rows(z))), MScale(X.d, Yterm(Rows(z)))), z), w)
    ELSE MAdd(z, w)

\* c: torch.sum(w * P) in sgm0.py, trace(w P.t()) in sgm.py.
CoefC(var, w, X) ==
    IF var = "sgm"
    THEN Rat(Trace(MM(w, Transpose(X.m))), X.d * X.d)
    ELSE Rat(Dot(w, X.m), X.d * X.d)
\* d: sum(wt * P) + sum(w * T), with traces in sgm.py.
CoefD(var, w, wt, X, T) ==
    IF var = "sgm"
    THEN RAdd(Rat(Trace(MM(wt, Transpose(X.m))), X.d),
              Rat(Trace(MM(w, Transpose(T))), X.d))
    ELSE RAdd(Rat(Dot(wt, X.m), X.d), Rat(Dot(w, T), X.d))
\* e: sum(wt * T), a trace in sgm.py.
CoefE(var, wt, T) ==
    IF var = "sgm" THEN RInt(Trace(MM(wt, Transpose(T)))) ELSE RInt(Dot(wt, T))
\* u = trace(P.t() x + P.t() y), v = trace(T.t() x + T.t() y): sgm.py only.
CoefU(var, X) ==
    IF var = "sgm"
    THEN Rat(Trace(MAdd(MM(Transpose(X.m), Xterm(Rows(X.m))),
                        MM(Transpose(X.m), Yterm(Rows(X.m))))), X.d)
    ELSE RInt(0)
CoefV(var, T) ==
    IF var = "sgm"
    THEN RInt(Trace(MAdd(MM(Transpose(T), Xterm(Rows(T))),
                         MM(Transpose(T), Yterm(Rows(T))))))
    ELSE RInt(0)

\* The line-search coefficients: falpha(s) = Quad * s^2 + Lin * s.
Quad(c, d, e) == RAdd(RSub(c, d), e)
Lin(d, e, u, v) == RSub(RAdd(RSub(d, RMul(RInt(2), e)), u), v)
\* AlphaOf without the guard: the division by zero the guard escapes.
AlphaOf_Unguarded(qa, lb) ==
    IF qa.n = 0
    THEN IF lb.n = 0 THEN NaN ELSE IF lb.n < 0 THEN PInf ELSE NInf
    ELSE Fin(RNeg(RDiv(lb, RMul(RInt(2), qa))))
\* The step size.
AlphaOf(qa, lb) ==
    IF qa.n = 0 /\ lb.n = 0 THEN Fin(RInt(0))
    ELSE IF qa.n = 0 THEN PInf
    ELSE Fin(RNeg(RDiv(lb, RMul(RInt(2), qa))))
\* f1, the value of the quadratic at 1.
F1Of(c, e, u, v) == RSub(RAdd(RSub(c, e), u), v)
FalphaOf(qa, lb, alpha) ==
    EAdd(EMul(Fin(qa), EMul(alpha, alpha)), EMul(Fin(lb), alpha))

\* The two acceptance conditions of the step decision.
InteriorCond(alpha, falpha, f1, tol) ==
    /\ ELt(alpha, Fin(RInt(tol)))
    /\ EGt(alpha, Fin(RInt(0)))
    /\ EGt(falpha, Fin(RInt(0)))
    /\ EGt(falpha, Fin(f1))
\* FullCond with a non-strict comparison: f1 <= 0.
FullCond_NonStrict(f1) == ~RLt(RInt(0), f1)
\* FullCond with the comparison turned around.
FullCond_Flipped(f1) == RLt(RInt(0), f1)
FullCond(f1) == RLt(f1, RInt(0))
\* StepDecision taking the full step on f1 <= 0.
StepDecision_FullOnZero(alpha, falpha, f1, tol) ==
    IF InteriorCond(alpha, falpha, f1, tol) THEN "interior"
    ELSE IF ~RLt(RInt(0), f1) THEN "full"
    ELSE "break"
StepDecision(alpha, falpha, f1, tol) ==
    IF InteriorCond(alpha, falpha, f1, tol) THEN "interior"
    ELSE IF FullCond(f1) THEN "full"
    ELSE "break"

\* Blend without the weight on T: alpha * P + T.
Blend_Unweighted(alpha, X, T) ==
    IF ~IsFin(alpha) \/ ~IsFiniteMat(X) THEN NonFiniteMat(Rows(T))
    ELSE NormP([m |-> MAdd(MScale(alpha.v.n, X.m), MScale(alpha.v.d * X.d, T)),
                d |-> alpha.v.d * X.d])
\* alpha * P + (1 - alpha) * T
Blend(alpha, X, T) ==
    IF ~IsFin(alpha) \/ ~IsFiniteMat(X) THEN NonFiniteMat(Rows(T))
    ELSE LET p == alpha.v.n
             q == alpha.v.d
         IN  NormP([m |-> MAdd(MScale(p, X.m), MScale((q - p) * X.d, T)),
                    d |-> q * X.d])

\* The assignments the oracle may return for the gradient at X.
GradAssignments(var, a, b, X) ==
    Lapjv(GradCost(GradNum(var, Znum(a, b, X), Wnum(a, b, X), X)))

\* The step decision and the P it leaves, from the coefficients.
Decide(X, tol, T, c, d, e, u, v) ==
    LET qa == Quad(c, d, e)
        lb == Lin(d, e, u, v)
        alpha == AlphaOf(qa, lb)
        f1 == F1Of(c, e, u, v)
        falpha == FalphaOf(qa, lb, alpha)
        branch == StepDecision(alpha, falpha, f1, tol)
    IN  [T |-> T, c |-> c, d |-> d, e |-> e, u |-> u, v |-> v,
         alpha |-> alpha, f1 |-> f1, falpha |-> falpha, branch |-> branch,
         P |-> IF branch = "interior" THEN Blend(alpha, X, T)
               ELSE IF branch = "full" THEN OfInt(T)
               ELSE X]

\* One pass of the loop body with the oracle's answer ind: the locals it
\* computes, the branch it takes and the P it leaves.
LoopBody(var, a, b, X, tol, ind) ==
    CHOOSE r \in
        UNION {{Decide(X, tol, T, c, d, e, u, v) :
                   c \in {CoefC(var, w, X)}, d \in {CoefD(var, w, wt, X, T)},
                   e \in {CoefE(var, wt, T)}, u \in {CoefU(var, X)},
                   v \in {CoefV(var, T)}} :
               T \in {EyeRows(ind)}, w \in {Wnum(a, b, X)},
               wt \in {Wnum(a, b, OfInt(EyeRows(ind)))}} : TRUE

\* ------------------------------------------------------------ projection
\* FinalCost without the flip: P itself as the cost.
FinalCost_Unflipped(X) == X.m
\* final_cost = P.max() - P, on the numerators of P.
FinalCost(X) ==
    LET mx == MaxOf(Entries(X.m))
    IN  [i \in DOMAIN X.m |-> [j \in DOMAIN X.m[i] |-> mx - X.m[i][j]]]
\* B_perm = p B_orig p.t() with p = P_final[:B_orig.size(0), :B_orig.size(1)]
Permute(Pf, b) ==
    LET p == Slice(Pf, Rows(b), Cols(b)) IN MM(MM(p, b), Transpose(p))

\* --------------------------------------------------------------- report
\* Whether torch broadcasts an r1 x r1 against an r2 x r2 operand.
Broadcasts(r1, r2) == r1 = r2 \/ r1 = 1 \/ r2 = 1
\* (X[:k, :k] == Y[:k, :k]).all() under broadcasting; also "the F-norm of
\* X[:k, :k] - Y[:k, :k] is 0".
BlockEqual(X, Y, k) ==
    LET x == Slice(X, k, k)
        y == Slice(Y, k, k)
        r == Max2(Rows(x), Rows(y))
        at(M, i, j) == M[IF Rows(M) = 1 THEN 1 ELSE i][IF Rows(M) = 1 THEN 1 ELSE j]
    IN  \/ Rows(x) = 0
        \/ Rows(y) = 0
        \/ \A i, j \in 1..r : at(x, i, j) = at(y, i, j)
\* The rows "i corr[i]" written to --outpath, 1-based.
CorrTable(corr) == [i \in 1..Len(corr) |-> <<i, corr[i]>>]

\* ---------------------------------------------------------------- inputs
\* Every 0/1 matrix of size k.
Mats(k) == [1..k -> [1..k -> {0, 1}]]
\* The adjacency matrices of the simple undirected graphs on k nodes.
Simple(k) == {M \in Mats(k) : \A i, j \in 1..k : M[i][i] = 0 /\ M[i][j] = M[j][i]}
\* The generic input matrices of size k: every 0/1 matrix up to 2 x 2, the
\* simple undirected graphs beyond.
Graphs(k) == IF k <= 2 THEN Mats(k) ELSE Simple(k)
\* The barycentre of the Birkhoff polytope.
Bary(k) == NormP([m |-> [i \in 1..k |-> [j \in 1..k |-> 1]], d |-> k])
\* The seed matrices of size k: every permutation matrix and the barycentre.
Seeds(k) == {OfInt(EyeRows(p)) : p \in AllPerms[k]} \cup {Bary(k)}
\* B relabelled by p: entry (i, j) is b[p[i]][p[j]].
Relabel(b, p) == [i \in DOMAIN b |-> [j \in DOMAIN b |-> b[p[i]][p[j]]]]

\* Inputs that pass validation (square A and B, P of the padded size, m = 0):
\* generic matrices of one size, simple graphs of two different sizes.
ValidInputs ==
    UNION {{[A |-> a, B |-> b, P |-> x, m |-> 0] :
               a \in IF ka = kb THEN Graphs(ka) ELSE Simple(ka),
               b \in IF ka = kb THEN Graphs(kb) ELSE Simple(kb),
               x \in Seeds(Max2(ka, kb))} :
           ka \in 1..MaxN, kb \in 1..MaxN}
\* Inputs that validation rejects: m # 0, or a matrix that is not square.
InvalidInputs ==
    {[A |-> Eye(2), B |-> Eye(2), P |-> OfInt(Eye(2)), m |-> 1],
     [A |-> << <<0, 1>> >>, B |-> Eye(2), P |-> OfInt(Eye(2)), m |-> 0],
     [A |-> Eye(2), B |-> << <<1>>, <<0>> >>, P |-> OfInt(Eye(2)), m |-> 0],
     [A |-> Eye(2), B |-> Eye(2), P |-> OfInt(<< <<1, 0>> >>), m |-> 0],
     [A |-> Eye(1), B |-> Eye(1), P |-> OfInt(Eye(1)), m |-> 1]}
\* The path scenarios: A the path, B any relabelling of it, P the identity.
PathInputs ==
    {[A |-> Path4, B |-> Relabel(Path4, p), P |-> OfInt(Eye(4)), m |-> 0] :
        p \in AllPerms[4]}

Variants == {"sgm0", "sgm"}
\* --tolerance: none of the step sizes (0), the default (1), and one above the
\* step sizes the line search yields at these dimensions (3).
Tolerances == {0, 1, 3}

\* ----------------------------------------------------------------- state
VARIABLES
    variant,    \* which script runs: "sgm0" (src/sgm0.py) or "sgm" (src/sgm.py)
    m,          \* args.m
    patience,   \* args.patience
    tolerance,  \* args.tolerance
    A_orig,     \* the matrix at --A-path, then its clone
    B_orig,     \* the matrix at --B-path, then its clone
    P_orig,     \* the matrix at --P-path, then its clone
    A,          \* A after remap and padding
    B,          \* B after remap and padding
    P,          \* the relaxed correspondence matrix
    n_seeds,    \* the seed count
    iters,      \* loop bodies executed so far
    loc,        \* the locals of the last loop body: T, c, d, e, u, v, alpha, f1, falpha, branch
    Pprev,      \* P at the start of the last loop body
    hist,       \* the values P held before an accepted step replaced them
    corr,       \* the final assignment
    P_final,    \* eye[corr]
    B_perm,     \* the permuted B
    output,     \* the correspondence table written to --outpath, <<>> if none
    pc,         \* "load", "prep", "loop", "project", "report", "done", "failed"
    err         \* why the run failed

vars == <<variant, m, patience, tolerance, A_orig, B_orig, P_orig, A, B, P, n_seeds,
          iters, loc, Pprev, hist, corr, P_final, B_perm, output, pc, err>>

NoLoc ==
    [T |-> <<>>, c |-> RInt(0), d |-> RInt(0), e |-> RInt(0), u |-> RInt(0),
     v |-> RInt(0), alpha |-> NaN, f1 |-> RInt(0), falpha |-> NaN, branch |-> "none"]

\* The state before the script runs, for input inp and the given options.
Start(inp, var, pat, tol) ==
    /\ variant = var
    /\ m = inp.m
    /\ patience = pat
    /\ tolerance = tol
    /\ A_orig = inp.A
    /\ B_orig = inp.B
    /\ P_orig = inp.P
    /\ A = <<>>
    /\ B = <<>>
    /\ P = inp.P
    /\ n_seeds = 0
    /\ iters = 0
    /\ loc = NoLoc
    /\ Pprev = inp.P
    /\ hist = {}
    /\ corr = <<>>
    /\ P_final = <<>>
    /\ B_perm = <<>>
    /\ output = <<>>
    /\ pc = "load"
    /\ err = "none"

\* Every generic input under every small option, and the path scenarios under
\* the small and the default options.
Init ==
    \/ \E inp \in ValidInputs \cup InvalidInputs, var \in Variants,
          pat \in 0..MaxPatience, tol \in Tolerances :
           Start(inp, var, pat, tol)
    \/ \E inp \in PathInputs, var \in Variants,
          pat \in (0..MaxPatience) \cup {DefaultPatience},
          tol \in Tolerances \cup {DefaultTolerance} :
           Start(inp, var, pat, tol)

\* ---------------------------------------------------------------- actions
\* parse_args and the three load_matrix calls: m must be 0, each matrix square.
Load ==
    /\ pc = "load"
    /\ IF ~ArgsOK(m)
       THEN pc' = "failed" /\ err' = "m != 0 -- not implemented yet"
       ELSE IF ~(LoadOK(A_orig) /\ LoadOK(B_orig) /\ LoadOK(P_orig.m))
       THEN pc' = "failed" /\ err' = "must be square"
       ELSE pc' = "prep" /\ err' = err
    /\ UNCHANGED <<variant, m, patience, tolerance, A_orig, B_orig, P_orig, A, B, P,
                   n_seeds, iters, loc, Pprev, hist, corr, P_final, B_perm, output>>

\* Prep: the seed count (sgm0.py), the remap of zeros to -1, the padding, and
\* the n == 1 guard of sgm.py.
Prep ==
    /\ pc = "prep"
    /\ LET max_nodes == Max2(Rows(A_orig), Rows(B_orig))
           n == max_nodes - m
       IN  /\ A' = square_pad(Remap(A_orig), max_nodes)
           /\ B' = square_pad(Remap(B_orig), max_nodes)
           /\ n_seeds' = IF variant = "sgm0" THEN CountSeeds(P) ELSE n_seeds
           /\ IF GuardN1(variant, n)
              THEN pc' = "failed" /\ err' = "NotImplemented"
              ELSE pc' = "loop" /\ err' = err
    /\ UNCHANGED <<variant, m, patience, tolerance, A_orig, B_orig, P_orig, P,
                   iters, loc, Pprev, hist, corr, P_final, B_perm, output>>

\* One pass of the loop body, for one of the oracle's optimal assignments.
Iterate ==
    /\ pc = "loop"
    /\ iters < patience
    /\ \E ind \in GradAssignments(variant, A, B, P) :
        \E s \in {LoopBody(variant, A, B, P, tolerance, ind)} :
            /\ loc' = [f \in DOMAIN NoLoc |-> s[f]]
            /\ P' = s.P
            /\ hist' = IF s.branch = "break" THEN hist ELSE hist \cup {P}
            /\ pc' = IF s.branch = "break" THEN "project" ELSE "loop"
    /\ Pprev' = P
    /\ iters' = iters + 1
    /\ UNCHANGED <<variant, m, patience, tolerance, A_orig, B_orig, P_orig, A, B,
                   n_seeds, corr, P_final, B_perm, output, err>>

\* range(args.patience) is exhausted.
LoopEnd ==
    /\ pc = "loop"
    /\ iters >= patience
    /\ pc' = "project"
    /\ UNCHANGED <<variant, m, patience, tolerance, A_orig, B_orig, P_orig, A, B, P,
                   n_seeds, iters, loc, Pprev, hist, corr, P_final, B_perm, output, err>>

\* The hard projection: one more assignment problem on P.max() - P.
Project ==
    /\ pc = "project"
    /\ \E cr \in Lapjv(FinalCost(P)) :
        /\ corr' = cr
        /\ P_final' = EyeRows(cr)
    /\ pc' = "report"
    /\ UNCHANGED <<variant, m, patience, tolerance, A_orig, B_orig, P_orig, A, B, P,
                   n_seeds, iters, loc, Pprev, hist, B_perm, output, err>>

\* The report: B_perm, then in sgm0.py the three F-norms and the table written
\* to --outpath, in sgm.py the assertion on the hardcoded seed block.
Report ==
    /\ pc = "report"
    /\ B_perm' = Permute(P_final, B_orig)
    /\ LET ns == IF variant = "sgm" THEN HardcodedSeeds ELSE n_seeds
           ra == Min2(ns, Rows(A_orig))
           rb == Min2(ns, Rows(B_orig))
       IN  /\ n_seeds' = ns
           /\ IF ~Broadcasts(ra, rb)
              THEN pc' = "failed" /\ err' = "shape mismatch" /\ output' = output
              ELSE IF variant = "sgm" /\ ~BlockEqual(A_orig, B_perm', ns)
              THEN pc' = "failed" /\ err' = "AssertionError" /\ output' = output
              ELSE /\ pc' = "done"
                   /\ err' = err
                   /\ output' = IF variant = "sgm0" THEN CorrTable(corr) ELSE output
    /\ UNCHANGED <<variant, m, patience, tolerance, A_orig, B_orig, P_orig, A, B, P,
                   iters, loc, Pprev, hist, corr, P_final>>

Next == Load \/ Prep \/ Iterate \/ LoopEnd \/ Project \/ Report

Spec == Init /\ [][Next]_vars

TypeOK ==
    /\ pc \in {"load", "prep", "loop", "project", "report", "done", "failed"}
    /\ iters \in 0..Max2(MaxPatience, DefaultPatience)

\* ------------------------------------------------------------ properties
Identity(k) == OfInt(Eye(k))
\* Non-negative entries, every row and every column summing to 1.
IsDoublyStochastic(X) ==
    /\ IsFiniteMat(X)
    /\ IsSquare(X.m)
    /\ \A i, j \in 1..Rows(X.m) : X.m[i][j] >= 0
    /\ \A i \in 1..Rows(X.m) :
        /\ SumTo(X.m[i], Rows(X.m)) = X.d
        /\ SumTo([j \in 1..Rows(X.m) |-> X.m[j][i]], Rows(X.m)) = X.d
\* A 0/1 matrix with exactly one 1 in every row and every column.
IsPermutationMatrix(M) == \E p \in AllPerms[Rows(M)] : M = EyeRows(p)
\* The objective q(X) = sum((A^T X B) * X), from A, B and X alone.
Objective(a, b, X) == Rat(Dot(MM(MM(Transpose(a), X.m), b), X.m), X.d * X.d)
\* The loop is over: by the break or by the budget.
LoopOver == pc \in {"project", "report", "done"} \/ (pc = "failed" /\ corr # <<>>)
\* The last loop body accepted a step.
Accepted == loc.branch \in {"interior", "full"}

\* C1: the loop never runs more than patience bodies; a body in which neither
\* the interior-step nor the full-step condition holds is the last one and
\* leaves P as it found it, and a body in which one of them holds does not end
\* the loop (only the budget does).
C1_LoopBoundedStopsAtFirstRejection ==
    /\ iters <= patience
    /\ loc.branch # "none" =>
        LET accept == \/ InteriorCond(loc.alpha, loc.falpha, loc.f1, tolerance)
                      \/ FullCond(loc.f1)
        IN  /\ ~accept => (pc # "loop" /\ P = Pprev /\ loc.branch = "break")
            /\ accept => ((pc = "loop" \/ iters = patience) /\ loc.branch # "break")
\* A run that accepted steps and then broke off before its budget was spent.
C1_Witness ==
    pc = "project" /\ loc.branch = "break" /\ hist # {} /\ 1 < iters /\ iters < patience

\* C2: from a doubly stochastic seed, P right after an accepted interior step
\* is doubly stochastic, whatever the tolerance.
C2_InteriorStepDoublyStochastic ==
    (loc.branch = "interior" /\ IsDoublyStochastic(P_orig)) => IsDoublyStochastic(P)
\* An interior step under tolerance 3 that left a fractional P.
C2_Witness ==
    /\ loc.branch = "interior"
    /\ tolerance = 3
    /\ IsDoublyStochastic(P_orig)
    /\ P.d > 1
    /\ P # Pprev

\* C5: when the quadratic coefficient c - d + e is zero, alpha is 0 if the
\* linear coefficient is zero too, and otherwise alpha is not finite, the
\* interior step is not taken, and the body takes the full step exactly when
\* f1 < 0 and breaks otherwise; P never holds a NaN or an infinite entry.
C5_DegenerateLineSearch ==
    /\ IsFiniteMat(P)
    /\ loc.branch # "none" =>
        LET qa == Quad(loc.c, loc.d, loc.e)
            lb == Lin(loc.d, loc.e, loc.u, loc.v)
        IN  /\ (qa.n = 0 /\ lb.n = 0) => loc.alpha = Fin(RInt(0))
            /\ (qa.n = 0 /\ lb.n # 0) =>
                /\ ~IsFin(loc.alpha)
                /\ loc.branch # "interior"
                /\ (loc.branch = "full") = RLt(loc.f1, RInt(0))
                /\ (loc.branch = "break") = ~RLt(loc.f1, RInt(0))
\* A body with zero quadratic and non-zero linear coefficient: alpha is inf and
\* the full step is taken.
C5_Witness ==
    /\ loc.branch = "full"
    /\ loc.alpha = PInf
    /\ Quad(loc.c, loc.d, loc.e).n = 0
    /\ Lin(loc.d, loc.e, loc.u, loc.v).n # 0
    /\ P = OfInt(loc.T)

\* C6: the hard projection of a permutation matrix is that matrix, and
\* projecting the projection again returns it.
C6_ProjectionIdempotent ==
    P_final # <<>> =>
        /\ (P.d = 1 /\ IsPermutationMatrix(P.m)) => P_final = P.m
        /\ Lapjv(FinalCost(OfInt(P_final))) = {corr}
\* A loop that ended on a permutation matrix other than the identity.
C6_Witness ==
    /\ pc = "done"
    /\ P.d = 1
    /\ IsPermutationMatrix(P.m)
    /\ P.m # Eye(Rows(P.m))
    /\ P_final = P.m

\* C10: every accepted step strictly increases q: a full step gives
\* q(T) > q(P_old), an interior step gives q(P_new) > q(P_old) and
\* q(P_new) > q(T); so an accepted step never returns P to a value it held.
C10_AcceptedStepIncreasesObjective ==
    Accepted =>
        /\ RLt(Objective(A, B, Pprev), Objective(A, B, P))
        /\ loc.branch = "full" => P = OfInt(loc.T)
        /\ loc.branch = "interior" =>
            RLt(Objective(A, B, OfInt(loc.T)), Objective(A, B, P))
        /\ P \notin hist
\* A third accepted step in a row, the one before it interior.
C10_Witness ==
    /\ Accepted
    /\ Cardinality(hist) = 3
    /\ \E X \in hist : X.d > 1

\* Some input matrix is not square, or m # 0 is requested.
Rejected ==
    m # 0 \/ ~IsSquare(A_orig) \/ ~IsSquare(B_orig) \/ ~IsSquare(P_orig.m)
\* n = max_nodes - m
ProblemSize == Max2(Rows(A_orig), Rows(B_orig)) - m
\* No loop body has run and P is the P that was loaded.
NothingRun == iters = 0 /\ loc.branch = "none" /\ P = P_orig

\* A identical to B, P the identity.
IdenticalCase ==
    ~Rejected /\ A_orig = B_orig /\ P_orig = Identity(Rows(A_orig))

\* C3 as claimed: for identical A and B of every size with P the identity the
\* loop ends after at most one body, none accepted, and the projection gives
\* the identity.
C3_Original ==
    IdenticalCase =>
        /\ iters <= 1
        /\ iters = 1 => loc.branch = "break"
        /\ P = P_orig
        /\ pc \in {"report", "done", "failed"} => P_final = Eye(Rows(A_orig))
\* C3 as amended: the same, except that sgm.py rejects size 1 before the loop;
\* every other run completes.
C3_IdenticalInputsKeepIdentity ==
    IdenticalCase =>
        /\ iters <= 1
        /\ iters = 1 => loc.branch = "break"
        /\ P = P_orig
        /\ IF variant = "sgm" /\ Rows(A_orig) = 1
           THEN pc \in {"load", "prep", "failed"} /\ NothingRun /\ P_final = <<>>
           ELSE /\ pc # "failed"
                /\ pc \in {"report", "done"} => P_final = Eye(Rows(A_orig))
\* Identical 2 x 2 inputs on which the oracle returned the swap on a tie.
C3_Witness ==
    /\ IdenticalCase
    /\ pc = "done"
    /\ Rows(A_orig) = 2
    /\ iters = 1
    /\ loc.T # Eye(2)
    /\ P_final = Eye(2)

\* The seed block as the claim defines it: n_seeds is the number of diagonal
\* entries of the input P equal to 1.
SeedBlockMismatch ==
    \E i, j \in 1..CountSeeds(P_orig) :
        /\ i <= Rows(A_orig) /\ j <= Rows(A_orig)
        /\ i <= Rows(B_perm) /\ j <= Rows(B_perm)
        /\ A_orig[i][j] # B_perm[i][j]
\* C4: a final permutation that does not reproduce the seed block ends the run
\* in a failure; no run completes and no table is written.
C4_SeedMismatchIsFatal ==
    (B_perm # <<>> /\ SeedBlockMismatch) => (pc = "failed" /\ output = <<>>)

\* C7 as claimed: a matrix that is not square, m # 0 or n = 1 ends the run
\* before the first loop body, P untouched.
C7_Original ==
    /\ Rejected => (pc \in {"load", "failed"} /\ NothingRun)
    /\ (~Rejected /\ ProblemSize = 1) => (pc \in {"load", "prep", "failed"} /\ NothingRun)
\* C7 as amended: n = 1 ends the run in sgm.py only.
C7_ValidationFailsFast ==
    /\ Rejected => (pc \in {"load", "failed"} /\ NothingRun)
    /\ (~Rejected /\ ProblemSize = 1 /\ variant = "sgm") =>
        (pc \in {"load", "prep", "failed"} /\ NothingRun)
\* sgm.py stopped by its n == 1 guard.
C7_Witness ==
    /\ pc = "failed"
    /\ err = "NotImplemented"
    /\ variant = "sgm"
    /\ ProblemSize = 1
    /\ NothingRun

\* The path with nodes 2 and 3 swapped (1-based, as the table counts).
PathSwap23 == Relabel(Path4, <<1, 3, 2, 4>>)
\* The scenario: the path against PathSwap23 from the identity, default options.
PathCase ==
    /\ A_orig = Path4
    /\ B_orig = PathSwap23
    /\ P_orig = Identity(4)
    /\ patience = DefaultPatience
    /\ tolerance = DefaultTolerance
\* The squared Frobenius norm of A_orig - B_perm.
Dist2 ==
    SumTo([i \in 1..Rows(B_perm) |->
        SumTo([j \in 1..Rows(B_perm) |->
            (A_orig[i][j] - B_perm[i][j]) * (A_orig[i][j] - B_perm[i][j])],
              Rows(B_perm))], Rows(B_perm))
\* C8 as claimed: the scenario ends with the correspondence that swaps 2 and 3,
\* at distance 0, whatever the oracle returns on ties.
C8_Original ==
    (PathCase /\ variant = "sgm0" /\ pc = "done") =>
        (output = CorrTable(<<1, 3, 2, 4>>) /\ Dist2 = 0)
\* C8 as amended: the loop breaks off by itself within 4 bodies; on some of the
\* oracle's tie-breaks the run ends with the swap of 2 and 3 at distance 0, on
\* others with <<4, 2, 3, 1>> (the swap composed with the reversal of the
\* path) at distance 0, and on others at a non-zero distance with
\* <<3, 1, 4, 2>>, the identity or the reversal; sgm0.py writes whichever it
\* found, sgm.py completes exactly when the distance is 0.
C8_PathScenarioOutcomes ==
    (PathCase /\ B_perm # <<>>) =>
        /\ iters <= 4
        /\ loc.branch = "break"
        /\ corr \in {<<1, 3, 2, 4>>, <<4, 2, 3, 1>>, <<3, 1, 4, 2>>,
                     <<1, 2, 3, 4>>, <<4, 3, 2, 1>>}
        /\ (Dist2 = 0) = (corr \in {<<1, 3, 2, 4>>, <<4, 2, 3, 1>>})
        /\ variant = "sgm0" => (pc = "done" /\ output = CorrTable(corr))
        /\ variant = "sgm" => ((pc = "done") = (Dist2 = 0))
\* The run of sgm0.py that ends with the swap of 2 and 3 at distance 0.
C8_Witness ==
    /\ PathCase
    /\ variant = "sgm0"
    /\ pc = "done"
    /\ output = CorrTable(<<1, 3, 2, 4>>)
    /\ Dist2 = 0
    /\ iters > 1

\* All-zero A and B, P the identity.
ZeroCase ==
    /\ ~Rejected
    /\ A_orig = Zeros(Rows(A_orig), Rows(A_orig))
    /\ B_orig = Zeros(Rows(B_orig), Rows(B_orig))
    /\ P_orig = Identity(ProblemSize)
\* grad of the last loop body.
LastGrad == GradNum(variant, Znum(A, B, Pprev), Wnum(A, B, Pprev), Pprev)
\* C9 as claimed: on all-zero inputs grad is zero, c = d = e = 0, alpha = 0 and
\* the loop breaks in its first body.
C9_Original ==
    (ZeroCase /\ loc.branch # "none") =>
        /\ \A g \in Entries(LastGrad) : g = 0
        /\ loc.c = RInt(0) /\ loc.d = RInt(0) /\ loc.e = RInt(0)
        /\ loc.alpha = Fin(RInt(0))
        /\ loc.branch = "break"
        /\ iters = 1
\* C9 as amended: the remap turns the zeros into -1, so grad is 2 k on the
\* leading block and c = e = k^2, d = 2 k^2 for k the smaller size; both
\* line-search coefficients are zero, alpha = 0 and the loop breaks in its
\* first body, no step accepted; sgm.py rejects n = 1 before the loop.
C9_ZeroInputsBreakAtOnce ==
    ZeroCase =>
        /\ iters <= 1
        /\ P = P_orig
        /\ (variant = "sgm" /\ ProblemSize = 1) => NothingRun
        /\ (LoopOver /\ patience >= 1) => iters = 1
        /\ loc.branch # "none" =>
            LET k == Min2(Rows(A_orig), Rows(B_orig))
            IN  /\ \A i, j \in 1..ProblemSize :
                    LastGrad[i][j] =
                        IF i <= Rows(A_orig) /\ j <= Rows(B_orig) THEN 2 * k ELSE 0
                /\ loc.c = RInt(k * k) /\ loc.e = RInt(k * k) /\ loc.d = RInt(2 * k * k)
                /\ Quad(loc.c, loc.d, loc.e).n = 0
                /\ Lin(loc.d, loc.e, loc.u, loc.v).n = 0
                /\ loc.alpha = Fin(RInt(0))
                /\ loc.branch = "break"
\* All-zero 2 x 2 inputs: the loop broke in its first body, the oracle having
\* returned the swap.
C9_Witness ==
    /\ ZeroCase
    /\ Rows(A_orig) = 2 /\ Rows(B_orig) = 2
    /\ pc = "done"
    /\ iters = 1
    /\ loc.branch = "break"
    /\ loc.c = RInt(4)
    /\ loc.T # Eye(2)

====
